---- MODULE Spec2Model ----
(***************************************************************************)
(* CMMCParser (src/cmmc_parser_evidence_bigdam.py): the evidence index     *)
(* built by load_evidence_enrichment, the delimited-text normalizer        *)
(* parse_delimited_content, the entry formatter format_evidence_entry and  *)
(* the lookup get_enriched_evidence_strings.                               *)
(*                                                                         *)
(* A Python str is a sequence of one-character strings.  The pandas        *)
(* absence marker NaN is the one-element sequence NaN, which is no str.    *)
(* A DataFrame row is a function from the columns of the file to cells.    *)
(***************************************************************************)
EXTENDS Integers, Sequences, FiniteSets, TLC

VARIABLES
    pc,                 \* position of the modelled call
    evidence_map,       \* self.evidence_map: control id -> list of entries
    columns,            \* the columns of the evidence CSV
    index,              \* number of evidence rows iterated so far
    row,                \* the row of the current/last iteration (or call)
    lookups,            \* number of get_enriched_evidence_strings calls made
    returned,           \* what they were given and returned:
                        \* <<cmmc_id, existing_evidence, unique_items>>
    content,            \* argument of parse_delimited_content
    items,              \* its return value
    entry,              \* return value of format_evidence_entry
    validation_errors,  \* self.validation_errors
    validation_warnings,\* self.validation_warnings
    config,             \* self.config, as far as run reads it
    files,              \* the evidence CSV and the input CSV on disk
    filter_controls,    \* the filter_controls argument of run
    df,                 \* the rows of the primary DataFrame
    reached,            \* the steps of run entered so far
    run_returns         \* the value run returned: <<>> until it returns

\* the state run works on besides evidence_map
runVars == <<validation_errors, validation_warnings, config, files,
             filter_controls, df, reached, run_returns>>

vars == <<pc, evidence_map, columns, index, row, lookups, returned, content,
          items, entry, validation_errors, validation_warnings, config, files,
          filter_controls, df, reached, run_returns>>

\* a path at which there is no file
MissingFile == [exists |-> FALSE, readable |-> FALSE, rows |-> <<>>]

\* a file that pd.read_csv raises on
UnreadableFile == [exists |-> TRUE, readable |-> FALSE, rows |-> <<>>]

\* a CSV file with these rows below its header
CsvFile(rows) == [exists |-> TRUE, readable |-> TRUE, rows |-> rows]

\* config.get(key, True) of an empty configuration
DefaultConfig ==
    [evidence_csv |-> TRUE, validate_poam_rules |-> TRUE,
     generate_html |-> TRUE, generate_docx |-> TRUE]

\* lines 40-46: the parser as constructed, run not called
Constructed ==
    /\ validation_errors = <<>>
    /\ validation_warnings = <<>>
    /\ config = DefaultConfig
    /\ files = [evidence_csv |-> MissingFile, input_csv |-> MissingFile,
                output_writable |-> TRUE]
    /\ filter_controls = {}
    /\ df = <<>>
    /\ reached = {}
    /\ run_returns = <<>>

----------------------------------------------------------------------------
(* Bounds *)

MaxLen == 4        \* longest enumerated input of parse_delimited_content
MaxRows == 2       \* evidence rows iterated by load_evidence_enrichment
MaxLookups == 2    \* calls of get_enriched_evidence_strings

----------------------------------------------------------------------------
(* Python str and pandas primitives *)

NaN == <<"NaN">>
None == <<"None">>

\* pd.isna(x)
isna(x) == x = NaN \/ x = None

\* characters str.strip() removes
Whitespace == {" ", "\t", "\n"}

RECURSIVE lstrip(_)
lstrip(s) == IF s # <<>> /\ Head(s) \in Whitespace THEN lstrip(Tail(s)) ELSE s

RECURSIVE rstrip(_)
rstrip(s) ==
    IF s # <<>> /\ s[Len(s)] \in Whitespace
    THEN rstrip(SubSeq(s, 1, Len(s) - 1))
    ELSE s

\* str.strip()
strip(s) == rstrip(lstrip(s))

\* str.replace(old, new) for one-character old and new
RECURSIVE replace(_, _, _)
replace(s, old, new) ==
    IF s = <<>> THEN <<>>
    ELSE <<IF Head(s) = old THEN new ELSE Head(s)>> \o replace(Tail(s), old, new)

\* str.split(sep) for a one-character sep: never empty, "" gives [""]
RECURSIVE split(_, _)
split(s, sep) ==
    IF \E i \in 1..Len(s) : s[i] = sep
    THEN LET i == CHOOSE k \in 1..Len(s) :
                      s[k] = sep /\ \A j \in 1..(k - 1) : s[j] # sep
         IN  <<SubSeq(s, 1, i - 1)>> \o split(SubSeq(s, i + 1, Len(s)), sep)
    ELSE <<s>>

\* str.endswith(c) for a one-character c
endswith(s, c) == s # <<>> /\ s[Len(s)] = c

\* str.upper() on the letters the inputs use
UpperOf(c) ==
    CASE c = "i" -> "I" [] c = "g" -> "G" [] c = "n" -> "N"
      [] c = "o" -> "O" [] c = "r" -> "R" [] c = "e" -> "E"
      [] c = "d" -> "D" [] c = "f" -> "F" [] c = "u" -> "U"
      [] c = "x" -> "X" [] c = "h" -> "H" [] c = "a" -> "A"
      [] c = "p" -> "P" [] c = "m" -> "M"
      [] OTHER -> c

upper(s) == [i \in 1..Len(s) |-> UpperOf(s[i])]

\* sub in s  (substring test)
contains(s, sub) ==
    \E i \in 0..(Len(s) - Len(sub)) : SubSeq(s, i + 1, i + Len(sub)) = sub

IGNORE == <<"I", "G", "N", "O", "R", "E">>

----------------------------------------------------------------------------
(* parse_delimited_content *)

header   == <<"h", "e", "a", "d", "e", "r">>
bullet_1 == <<"b", "u", "l", "l", "e", "t", "_", "1">>
bullet_2 == <<"b", "u", "l", "l", "e", "t", "_", "2">>
bullet1  == <<"b", "u", "l", "l", "e", "t", "1">>
bullet2  == <<"b", "u", "l", "l", "e", "t", "2">>

PlaceholdersNoBullet2 == {<<>>, header, bullet_1, bullet_2, bullet1}

\* the list of line 188: ['', 'header', 'bullet_1', 'bullet_2', 'bullet1', 'bullet2']
Placeholders == {<<>>, header, bullet_1, bullet_2, bullet1, bullet2}

UnifyNothing(s) == s

\* line 182: content.replace('|', ';')
UnifyDelimiters(s) == replace(s, "|", ";")

CleanItemKeepPeriod(item) == item

\* lines 190-191: one trailing period removed, then stripped again
CleanItem(item) ==
    IF endswith(item, ".") THEN strip(SubSeq(item, 1, Len(item) - 1)) ELSE item

\* lines 185-192: the loop over content.split(';')
RECURSIVE ParseItems(_)
ParseItems(segs) ==
    IF segs = <<>> THEN <<>>
    ELSE LET item == strip(Head(segs))
         IN  (IF item # <<>> /\ item \notin Placeholders
              THEN <<CleanItem(item)>>
              ELSE <<>>) \o ParseItems(Tail(segs))

parse_delimited_content(c) ==
    IF isna(c) \/ c = <<>> THEN <<>>
    ELSE ParseItems(split(UnifyDelimiters(c), ";"))

----------------------------------------------------------------------------
(* Inputs of parse_delimited_content *)

ParseChars == {"a", " ", ".", ";", "|"}

StringsUpTo(chars, n) == UNION {[1..k -> chars] : k \in 0..n}

SampleContents == {
    <<"a", "|", "b", ";", "c">>,
    <<"a", ".", ";", "b", ".", ".", "|", " ", "c", " ", ".">>,
    header, bullet_1, bullet_2, bullet1, bullet2,
    <<"H", "e", "a", "d", "e", "r">>,
    <<"B", "U", "L", "L", "E", "T", "1">>,
    <<"b", "u", "l", "l", "e", "t", "_", "3">>,
    header \o <<".">>,
    <<" ">> \o header \o <<" ", ";", "a">>,
    <<"a", "|">> \o bullet2 \o <<";">> \o header \o <<"x">>,
    bullet_1 \o <<"|">> \o bullet1 \o <<";", "H", "e", "a", "d", "e", "r">>
}

Contents == StringsUpTo(ParseChars, MaxLen) \cup SampleContents \cup {NaN, None}

----------------------------------------------------------------------------
(* SpecParse: one call of parse_delimited_content on any input *)

InitParse ==
    /\ Constructed
    /\ pc = "parse"
    /\ evidence_map = <<>>
    /\ columns = {}
    /\ index = 0
    /\ row = <<>>
    /\ lookups = 0
    /\ returned = {}
    /\ content \in Contents
    /\ items = <<>>
    /\ entry = <<>>

ParseCall ==
    /\ pc = "parse"
    /\ items' = parse_delimited_content(content)
    /\ pc' = "parsed"
    /\ UNCHANGED runVars
    /\ UNCHANGED <<evidence_map, columns, index, row, lookups, returned, content,
                   entry>>

NextParse == ParseCall

SpecParse == InitParse /\ [][NextParse]_vars

----------------------------------------------------------------------------
(* Properties of parse_delimited_content (SpecParse) *)

Delimiters == {";", "|"}

\* the five placeholder tokens the specification lists
SpecPlaceholders == {header, bullet_1, bullet_2, bullet1, bullet2}

\* s with each '|' replaced by ';'
PipesAsSemicolons(s) == [i \in 1..Len(s) |-> IF s[i] = "|" THEN ";" ELSE s[i]]

\* a split item starts after position b: 0 or the position of a delimiter
SegmentStarts(s) == {0} \cup {i \in 1..Len(s) : s[i] \in Delimiters}

SegmentAfter(s, b) ==
    LET later == {i \in (b + 1)..Len(s) : s[i] \in Delimiters}
        e == IF later = {} THEN Len(s) + 1
             ELSE CHOOSE i \in later : \A j \in later : i <= j
    IN  SubSeq(s, b + 1, e - 1)

\* t without its leading and trailing whitespace
Trimmed(t) ==
    LET solid == {i \in 1..Len(t) : t[i] \notin Whitespace}
    IN  IF solid = {} THEN <<>>
        ELSE SubSeq(t, CHOOSE i \in solid : \A j \in solid : i <= j,
                       CHOOSE i \in solid : \A j \in solid : j <= i)

KeptStarts(s) ==
    {b \in SegmentStarts(s) :
        LET t == Trimmed(SegmentAfter(s, b))
        IN  t # <<>> /\ t \notin SpecPlaceholders}

IsText(c) == c # NaN /\ c # None /\ c # <<>>

\* C5: every item returned by parse_delimited_content is a non-empty string
\* with no leading or trailing whitespace.
C5_ItemsNonEmptyTrimmed ==
    pc = "parsed" =>
        \A i \in 1..Len(items) :
            /\ items[i] # <<>>
            /\ items[i][1] \notin Whitespace
            /\ items[i][Len(items[i])] \notin Whitespace

\* C6: normalizing an item of the output again returns exactly that item.
C6_IdempotentOnOutput ==
    pc = "parsed" =>
        \A i \in 1..Len(items) :
            parse_delimited_content(items[i]) = <<items[i]>>

\* C7: the result is the result for the input with '|' written as ';'; the
\* items keep the input's left-to-right order (the result is the result of
\* the text before a delimiter followed by the result of the text after it);
\* "a|b;c" yields ["a", "b", "c"].
C7_DelimiterEquivalenceAndOrder ==
    pc = "parsed" /\ IsText(content) =>
        /\ items = parse_delimited_content(PipesAsSemicolons(content))
        /\ \A i \in 1..Len(content) :
              content[i] \in Delimiters =>
                  items = parse_delimited_content(SubSeq(content, 1, i - 1))
                          \o parse_delimited_content(
                                 SubSeq(content, i + 1, Len(content)))
        /\ content = <<"a", "|", "b", ";", "c">> =>
              items = << <<"a">>, <<"b">>, <<"c">> >>

C7_Witness ==
    /\ pc = "parsed"
    /\ content = <<"a", "|", "b", ";", "c">>
    /\ items = << <<"a">>, <<"b">>, <<"c">> >>

\* C8: exactly the split items that after trimming are empty or one of the
\* five placeholder tokens (compared case-sensitively) are dropped, every
\* other item is kept, in order; an absent or empty input yields [].
C8_PlaceholderAndEmptyFiltering ==
    pc = "parsed" =>
        IF ~IsText(content) THEN items = <<>>
        ELSE /\ Len(items) = Cardinality(KeptStarts(content))
             /\ \A b \in KeptStarts(content) :
                   LET k == Cardinality({x \in KeptStarts(content) : x <= b})
                       t == Trimmed(SegmentAfter(content, b))
                   IN  items[k] = IF t[Len(t)] = "."
                                  THEN Trimmed(SubSeq(t, 1, Len(t) - 1))
                                  ELSE t

C8_Witness ==
    /\ pc = "parsed"
    /\ content = bullet_1 \o <<"|">> \o bullet1
                 \o <<";", "H", "e", "a", "d", "e", "r">>
    /\ items = << <<"H", "e", "a", "d", "e", "r">> >>

----------------------------------------------------------------------------
(* format_evidence_entry *)

\* row.get(col, default)
get(r, col, default) == IF col \in DOMAIN r THEN r[col] ELSE default

\* 'col' in row and not pd.isna(row['col']) and row['col'] != ''
Filled(r, col) == col \in DOMAIN r /\ ~isna(r[col]) /\ r[col] # <<>>

\* lines 148-150: the bracketed link
LinkParts(r) ==
    IF Filled(r, "Current_Sharepoint_Link")
    THEN << <<"[">> \o strip(r["Current_Sharepoint_Link"]) \o <<"]">> >>
    ELSE <<>>

DescriptionPartsFileForIgnored(r) ==
    IF Filled(r, "Description")
       /\ ~contains(upper(strip(r["Description"])), IGNORE)
    THEN <<strip(r["Description"])>>
    ELSE IF Filled(r, "File_Name") THEN <<strip(r["File_Name"])>>
    ELSE <<>>

\* lines 153-162: the description, else (elif) the file name
DescriptionParts(r) ==
    IF Filled(r, "Description")
    THEN IF ~contains(upper(strip(r["Description"])), IGNORE)
         THEN <<strip(r["Description"])>>
         ELSE <<>>
    ELSE IF Filled(r, "File_Name") THEN <<strip(r["File_Name"])>>
    ELSE <<>>

JoinPartsNoDash(entry_parts) ==
    IF Len(entry_parts) = 2 THEN entry_parts[1] \o <<" ">> \o entry_parts[2]
    ELSE IF entry_parts # <<>> THEN entry_parts[1]
    ELSE <<>>

\* lines 165-170
JoinParts(entry_parts) ==
    IF Len(entry_parts) = 2
    THEN entry_parts[1] \o <<" ", "-", " ">> \o entry_parts[2]
    ELSE IF entry_parts # <<>> THEN entry_parts[1]
    ELSE <<>>

format_evidence_entry(r) == JoinParts(LinkParts(r) \o DescriptionParts(r))

----------------------------------------------------------------------------
(* Inputs of format_evidence_entry *)

http_x     == <<"h", "t", "t", "p", ":", "/", "/", "x">>
Policy_doc == <<"P", "o", "l", "i", "c", "y", " ", "d", "o", "c">>
f_pdf      == <<"f", ".", "p", "d", "f">>
ignore_this == <<"i", "g", "n", "o", "r", "e", " ", "t", "h", "i", "s">>
Old_evidence_IGNORE ==
    <<"O", "l", "d", " ", "e", "v", "i", "d", "e", "n", "c", "e", " ", "-", " ">>
    \o IGNORE

FormatLinks == {NaN, <<>>, http_x, <<" ", "u", " ">>, <<" ">>}

FormatDescriptions == {
    NaN, <<>>, Policy_doc, <<" ", "d", " ">>, <<" ">>,
    IGNORE, ignore_this, Old_evidence_IGNORE,
    <<"x", "I", "g", "N", "o", "R", "e">>,
    <<"I", "G", "N", "O", "R">>,
    <<"i", "g", "n", " ", "o", "r", "e">>
}

FormatFileNames == {NaN, <<>>, f_pdf, <<" ", "f">>}

FormatColumns == {"Current_Sharepoint_Link", "Description", "File_Name"}

\* a row of a file with the columns cols
RowOver(cols, full) == [c \in cols |-> full[c]]

FormatRows ==
    {RowOver(cols, full) :
        cols \in SUBSET FormatColumns,
        full \in [Current_Sharepoint_Link : FormatLinks,
                  Description : FormatDescriptions,
                  File_Name : FormatFileNames]}

----------------------------------------------------------------------------
(* SpecFormat: one call of format_evidence_entry on any row *)

InitFormat ==
    /\ Constructed
    /\ pc = "format"
    /\ evidence_map = <<>>
    /\ columns = {}
    /\ index = 0
    /\ row \in FormatRows
    /\ lookups = 0
    /\ returned = {}
    /\ content = <<>>
    /\ items = <<>>
    /\ entry = <<>>

FormatCall ==
    /\ pc = "format"
    /\ entry' = format_evidence_entry(row)
    /\ pc' = "formatted"
    /\ UNCHANGED runVars
    /\ UNCHANGED <<evidence_map, columns, index, row, lookups, returned, content,
                   items>>

NextFormat == FormatCall

SpecFormat == InitFormat /\ [][NextFormat]_vars

----------------------------------------------------------------------------
(* Properties of format_evidence_entry (SpecFormat) *)

\* the field is present and non-empty
Present(r, col) == col \in DOMAIN r /\ r[col] \notin {NaN, None, <<>>}

ignore_lower == <<"i", "g", "n", "o", "r", "e">>

\* s contains "IGNORE" in some letter case
MentionsIgnore(s) ==
    \E i \in 0..(Len(s) - 6) :
        \A k \in 1..6 : s[i + k] \in {IGNORE[k], ignore_lower[k]}

HasLinkPart(r) == Present(r, "Current_Sharepoint_Link")

LinkPart(r) == <<"[">> \o Trimmed(r["Current_Sharepoint_Link"]) \o <<"]">>

DescriptionUsable(r) ==
    Present(r, "Description") /\ ~MentionsIgnore(r["Description"])

FileNameFallback(r) == ~Present(r, "Description") /\ Present(r, "File_Name")

HasDescriptivePart(r) == DescriptionUsable(r) \/ FileNameFallback(r)

DescriptivePart(r) ==
    IF DescriptionUsable(r) THEN Trimmed(r["Description"])
    ELSE Trimmed(r["File_Name"])

\* C9: link part and descriptive part are joined as "[<link>] - <part>"; one
\* part alone is returned as it is; no part gives the empty string.
C9_CombinationRule ==
    pc = "formatted" =>
        /\ HasLinkPart(row) /\ HasDescriptivePart(row) =>
              entry = LinkPart(row) \o <<" ", "-", " ">> \o DescriptivePart(row)
        /\ HasLinkPart(row) /\ ~HasDescriptivePart(row) => entry = LinkPart(row)
        /\ ~HasLinkPart(row) /\ HasDescriptivePart(row) =>
              entry = DescriptivePart(row)
        /\ ~HasLinkPart(row) /\ ~HasDescriptivePart(row) => entry = <<>>
        /\ Present(row, "Description")
           /\ get(row, "Current_Sharepoint_Link", <<>>) = http_x
           /\ row["Description"] = Policy_doc =>
              entry = <<"[">> \o http_x \o <<"]", " ", "-", " ">> \o Policy_doc

C9_Witness ==
    /\ pc = "formatted"
    /\ Present(row, "Current_Sharepoint_Link")
    /\ Present(row, "Description")
    /\ row["Current_Sharepoint_Link"] = http_x
    /\ row["Description"] = Policy_doc
    /\ entry = <<"[">> \o http_x \o <<"]", " ", "-", " ">> \o Policy_doc

\* what the entry starts with: the link part and the separator, if a link
LinkPrefix(r) ==
    IF HasLinkPart(r) THEN LinkPart(r) \o <<" ", "-", " ">> ELSE <<>>

\* C10: the descriptive part is the Description when present, non-empty and
\* free of "IGNORE" (any case); the File_Name only when the Description is
\* absent or empty; a Description with "IGNORE" gives no descriptive part and
\* the File_Name does not replace it.
C10_DescriptivePartSelection ==
    pc = "formatted" =>
        /\ DescriptionUsable(row) =>
              entry = LinkPrefix(row) \o Trimmed(row["Description"])
        /\ Present(row, "Description") /\ MentionsIgnore(row["Description"]) =>
              entry = IF HasLinkPart(row) THEN LinkPart(row) ELSE <<>>
        /\ ~Present(row, "Description") /\ Present(row, "File_Name") =>
              entry = LinkPrefix(row) \o Trimmed(row["File_Name"])
        /\ ~Present(row, "Description") /\ ~Present(row, "File_Name") =>
              entry = IF HasLinkPart(row) THEN LinkPart(row) ELSE <<>>
        /\ ~HasLinkPart(row) /\ ~Present(row, "Description")
           /\ get(row, "File_Name", <<>>) = f_pdf => entry = f_pdf
        /\ ~HasLinkPart(row) /\ get(row, "Description", <<>>) = ignore_this =>
              entry = <<>>

C10_Witness ==
    /\ pc = "formatted"
    /\ ~HasLinkPart(row)
    /\ get(row, "Description", <<>>) = ignore_this
    /\ get(row, "File_Name", <<>>) = f_pdf
    /\ entry = <<>>

----------------------------------------------------------------------------
(* load_evidence_enrichment *)

\* line 103: both mapping cells are NaN (a missing column reads as '')
NoMappings(r) ==
    /\ isna(get(r, "Suggested_CMMC_Mappings", <<>>))
    /\ isna(get(r, "Provided_CMMC_Mappings", <<>>))

IgnoredCaseSensitive(r) ==
    /\ "Description" \in DOMAIN r
    /\ ~isna(r["Description"])
    /\ contains(r["Description"], IGNORE)

\* lines 107-108: the description, upper-cased, contains 'IGNORE'
Ignored(r) ==
    /\ "Description" \in DOMAIN r
    /\ ~isna(r["Description"])
    /\ contains(upper(r["Description"]), IGNORE)

MappingsOfBothFields(r) ==
    (IF Filled(r, "Suggested_CMMC_Mappings")
     THEN parse_delimited_content(r["Suggested_CMMC_Mappings"]) ELSE <<>>)
    \o (IF Filled(r, "Provided_CMMC_Mappings")
        THEN parse_delimited_content(r["Provided_CMMC_Mappings"]) ELSE <<>>)

\* lines 116-126: Suggested_CMMC_Mappings, else (elif) Provided_CMMC_Mappings
cmmc_mappings(r) ==
    IF Filled(r, "Suggested_CMMC_Mappings")
    THEN parse_delimited_content(r["Suggested_CMMC_Mappings"])
    ELSE IF Filled(r, "Provided_CMMC_Mappings")
    THEN parse_delimited_content(r["Provided_CMMC_Mappings"])
    ELSE <<>>

AppendEntryAtFront(map, id, e) ==
    [k \in DOMAIN map \cup {id} |->
        IF k = id
        THEN <<e>> \o (IF id \in DOMAIN map THEN map[id] ELSE <<>>)
        ELSE map[k]]

\* lines 132-134: self.evidence_map[id].append(e), the list created if missing
AppendEntry(map, id, e) ==
    [k \in DOMAIN map \cup {id} |->
        IF k = id
        THEN (IF id \in DOMAIN map THEN map[id] ELSE <<>>) \o <<e>>
        ELSE map[k]]

\* lines 129-134: the loop over cmmc_mappings
RECURSIVE AddToControls(_, _, _)
AddToControls(map, ids, e) ==
    IF ids = <<>> THEN map
    ELSE LET id == strip(Head(ids))
         IN  AddToControls(IF id # <<>> THEN AppendEntry(map, id, e) ELSE map,
                           Tail(ids), e)

\* lines 101-135: one iteration of the loop over the rows
ProcessRow(map, r) ==
    IF NoMappings(r) THEN map
    ELSE IF Ignored(r) THEN map
    ELSE AddToControls(map, cmmc_mappings(r), format_evidence_entry(r))

----------------------------------------------------------------------------
(* get_enriched_evidence_strings *)

\* truth value of a cell: '' and None are false, NaN (a float) is true
Truthy(x) == x # <<>> /\ x # None

UniqueForgetSeen(evidence_items) == evidence_items

RECURSIVE UniqueFrom(_, _)
UniqueFrom(evidence_items, seen) ==
    IF evidence_items = <<>> THEN <<>>
    ELSE IF Head(evidence_items) \in seen
         THEN UniqueFrom(Tail(evidence_items), seen)
         ELSE <<Head(evidence_items)>>
              \o UniqueFrom(Tail(evidence_items), seen \cup {Head(evidence_items)})

\* lines 209-214: first occurrences, in order
Unique(evidence_items) == UniqueFrom(evidence_items, {})

\* lines 198-216
get_enriched_evidence_strings(map, id, existing) ==
    Unique((IF Truthy(existing) /\ ~isna(existing) /\ existing # <<>>
            THEN parse_delimited_content(existing) ELSE <<>>)
           \o (IF id \in DOMAIN map THEN map[id] ELSE <<>>))

EvidenceMapExtendedInPlace(map, id, existing) ==
    IF id \in DOMAIN map
    THEN [map EXCEPT ![id] = parse_delimited_content(existing) \o @]
    ELSE map

\* self.evidence_map after the call: lines 198-206 build evidence_items as a
\* new list and extend() copies the elements of self.evidence_map[cmmc_id]
\* into it; no statement of the method writes the dict or one of its lists
EvidenceMapAfterLookup(map, id, existing) == map

----------------------------------------------------------------------------
(* Inputs of load_evidence_enrichment and get_enriched_evidence_strings *)

c311 == <<"3", ".", "1", ".", "1">>
c312 == <<"3", ".", "1", ".", "2">>
c313 == <<"3", ".", "1", ".", "3">>

EvidenceColumns ==
    {"File_Name", "Current_Sharepoint_Link", "Description",
     "Suggested_CMMC_Mappings", "Provided_CMMC_Mappings"}

\* the column sets of the evidence files considered
EvidenceColumnSets ==
    {EvidenceColumns,
     EvidenceColumns \ {"Suggested_CMMC_Mappings"},
     EvidenceColumns \ {"Description"}}

FullEvidenceRows ==
    [File_Name : {NaN, <<"f">>},
     Current_Sharepoint_Link : {NaN, <<"u">>},
     Description :
        {NaN, <<"d">>, <<"x", "I", "g", "N", "o", "R", "e">>,
         Old_evidence_IGNORE},
     Suggested_CMMC_Mappings :
        {NaN, <<" ">>, c311, c311 \o <<"|">> \o c312,
         c312 \o <<";", " ">> \o c312 \o <<".">>},
     Provided_CMMC_Mappings : {NaN, c312}]

EvidenceRows(cols) == {RowOver(cols, full) : full \in FullEvidenceRows}

LookupIds == {c312, c313}

ExistingEvidences == {NaN, <<"x">>, <<"d", ".", ";", "x", "|", "d">>}

----------------------------------------------------------------------------
(* Spec: load_evidence_enrichment, then the lookups of the rendering *)

Init ==
    /\ Constructed
    /\ pc = "load_evidence"
    /\ evidence_map = <<>>
    /\ columns = {}
    /\ index = 0
    /\ row = <<>>
    /\ lookups = 0
    /\ returned = {}
    /\ content = <<>>
    /\ items = <<>>
    /\ entry = <<>>

\* lines 82-84: no such file
EvidenceFileMissing ==
    /\ pc = "load_evidence"
    /\ pc' = "loaded"
    /\ UNCHANGED runVars
    /\ UNCHANGED <<evidence_map, columns, index, row, lookups, returned, content,
                   items, entry>>

\* lines 89-98: the file is read
ReadEvidenceCsv ==
    /\ pc = "load_evidence"
    /\ \E cols \in EvidenceColumnSets : columns' = cols
    /\ pc' = "rows"
    /\ UNCHANGED runVars
    /\ UNCHANGED <<evidence_map, index, row, lookups, returned, content, items,
                   entry>>

\* lines 101-135: the next row of the file
LoadEvidenceRow ==
    /\ pc = "rows"
    /\ index < MaxRows
    /\ \E r \in EvidenceRows(columns) :
          /\ row' = r
          /\ evidence_map' = ProcessRow(evidence_map, r)
    /\ index' = index + 1
    /\ UNCHANGED runVars
    /\ UNCHANGED <<pc, columns, lookups, returned, content, items, entry>>

\* lines 137-141: the rows are exhausted
LoadEvidenceDone ==
    /\ pc = "rows"
    /\ pc' = "loaded"
    /\ row' = <<>>
    /\ UNCHANGED runVars
    /\ UNCHANGED <<evidence_map, columns, index, lookups, returned, content,
                   items, entry>>

\* lines 394, 509: a renderer asks for the evidence of a control
Lookup ==
    /\ pc = "loaded"
    /\ lookups < MaxLookups
    /\ lookups' = lookups + 1
    /\ \E id \in LookupIds, existing \in ExistingEvidences :
          /\ evidence_map' = EvidenceMapAfterLookup(evidence_map, id, existing)
          /\ returned' = returned \cup
                {<<id, existing,
                   get_enriched_evidence_strings(evidence_map, id, existing)>>}
    /\ UNCHANGED runVars
    /\ UNCHANGED <<pc, columns, index, row, content, items, entry>>

Next ==
    \/ EvidenceFileMissing
    \/ ReadEvidenceCsv
    \/ LoadEvidenceRow
    \/ LoadEvidenceDone
    \/ Lookup

Spec == Init /\ [][Next]_vars

----------------------------------------------------------------------------
(* Properties of load_evidence_enrichment and the lookups (Spec) *)

Range(seq) == {seq[i] : i \in 1..Len(seq)}

\* the control identifiers a mapping field lists
IdsListed(field) ==
    {Trimmed(x) : x \in Range(parse_delimited_content(field))} \ {<<>>}

\* the identifiers of the one field the precedence rule selects
TargetIds(r) ==
    IF Present(r, "Suggested_CMMC_Mappings")
    THEN IdsListed(r["Suggested_CMMC_Mappings"])
    ELSE IF Present(r, "Provided_CMMC_Mappings")
    THEN IdsListed(r["Provided_CMMC_Mappings"])
    ELSE {}

\* the list of control c is the same in map and in after
SameList(map, after, c) ==
    /\ c \in DOMAIN map <=> c \in DOMAIN after
    /\ c \in DOMAIN map => after[c] = map[c]

\* C1: a row changes the lists of the identifiers of exactly one field,
\* Suggested_CMMC_Mappings if present and non-empty, else
\* Provided_CMMC_Mappings; an identifier only in Provided is untouched by a
\* row whose Suggested field is non-empty.
C1_StrictPrecedence ==
    [][index' = index + 1 =>
        /\ \A c \in DOMAIN evidence_map \cup DOMAIN evidence_map' :
              c \notin TargetIds(row') => SameList(evidence_map, evidence_map', c)
        /\ Present(row', "Suggested_CMMC_Mappings")
           /\ Present(row', "Provided_CMMC_Mappings") =>
              \A c \in IdsListed(row'["Provided_CMMC_Mappings"])
                       \ IdsListed(row'["Suggested_CMMC_Mappings"]) :
                  SameList(evidence_map, evidence_map', c)]_vars

C1_Witness ==
    /\ pc = "rows"
    /\ index = 1
    /\ Present(row, "Suggested_CMMC_Mappings")
    /\ row["Suggested_CMMC_Mappings"] = c311
    /\ row["Provided_CMMC_Mappings"] = c312
    /\ DOMAIN evidence_map = {c311}

\* C2: a row whose Description contains "IGNORE" in any letter case leaves
\* evidence_map unchanged, whatever its other fields hold.
C2_IgnoreRule ==
    [][index' = index + 1
       /\ Present(row', "Description")
       /\ MentionsIgnore(row'["Description"]) =>
           evidence_map' = evidence_map]_vars

C2_Witness ==
    /\ pc = "rows"
    /\ index = 2
    /\ Present(row, "Description")
    /\ row["Description"] = Old_evidence_IGNORE
    /\ Present(row, "Suggested_CMMC_Mappings")
    /\ row["Suggested_CMMC_Mappings"] = c311
    /\ Present(row, "Current_Sharepoint_Link")
    /\ DOMAIN evidence_map = {c312}

\* position of the first occurrence of x in seq
FirstIndex(seq, x) ==
    CHOOSE i \in 1..Len(seq) : seq[i] = x /\ \A j \in 1..(i - 1) : seq[j] # x

\* the inline items followed by the index entries of the control
Combined(map, id, existing) ==
    parse_delimited_content(existing)
    \o (IF id \in DOMAIN map THEN map[id] ELSE <<>>)

\* C3: the result holds exactly the strings of the inline items followed by
\* the index entries, each once, in the order of their first occurrences.
C3_LookupResult ==
    \A t \in returned :
        LET all == Combined(evidence_map, t[1], t[2])
            result == t[3]
        IN  /\ Range(result) = Range(all)
            /\ \A i, j \in 1..Len(result) : i # j => result[i] # result[j]
            /\ \A i, j \in 1..Len(result) :
                  i < j => FirstIndex(all, result[i]) < FirstIndex(all, result[j])

C3_Witness ==
    \E t \in returned :
        /\ t[1] \in DOMAIN evidence_map
        /\ t[2] = <<"d", ".", ";", "x", "|", "d">>
        /\ evidence_map[t[1]] = << <<"d">>, <<"[", "u", "]", " ", "-", " ", "d">> >>
        /\ t[3] = << <<"d">>, <<"x">>, <<"[", "u", "]", " ", "-", " ", "d">> >>

----------------------------------------------------------------------------
(* Contents of the index (Spec) *)

\* C11: no list of evidence_map contains the empty string.
C11_NoEmptyEntryInIndex ==
    \A c \in DOMAIN evidence_map : <<>> \notin Range(evidence_map[c])

HasRepetition(seq) == \E i, j \in 1..Len(seq) : i # j /\ seq[i] = seq[j]

\* C12 as stated: no list of evidence_map contains the same entry twice.
C12_IndexListsDeduplicated ==
    \A c \in DOMAIN evidence_map : ~HasRepetition(evidence_map[c])

\* C12 as amended: no list returned by get_enriched_evidence_strings contains
\* the same entry twice, whatever the lists of evidence_map repeat.
C12_ReturnedListsDeduplicated ==
    \A t \in returned : ~HasRepetition(t[3])

C12_Witness ==
    /\ index = 1
    /\ \E t \in returned :
          /\ t[1] \in DOMAIN evidence_map
          /\ t[2] = NaN
          /\ Len(evidence_map[t[1]]) = 2
          /\ HasRepetition(evidence_map[t[1]])
          /\ Len(t[3]) = 1

\* the mapping field the precedence rule selects ('' if none)
ChosenField(r) ==
    IF Present(r, "Suggested_CMMC_Mappings") THEN r["Suggested_CMMC_Mappings"]
    ELSE IF Present(r, "Provided_CMMC_Mappings") THEN r["Provided_CMMC_Mappings"]
    ELSE <<>>

\* the row is skipped: it has no mapping field or its description says IGNORE
Skipped(r) ==
    \/ ~Present(r, "Suggested_CMMC_Mappings")
       /\ ~Present(r, "Provided_CMMC_Mappings")
    \/ Present(r, "Description") /\ MentionsIgnore(r["Description"])

\* the display entry of the row, by the formatter's contract
ExpectedEntry(r) ==
    IF HasLinkPart(r) /\ HasDescriptivePart(r)
    THEN LinkPart(r) \o <<" ", "-", " ">> \o DescriptivePart(r)
    ELSE IF HasLinkPart(r) THEN LinkPart(r)
    ELSE IF HasDescriptivePart(r) THEN DescriptivePart(r)
    ELSE <<>>

\* how often the normalized field names identifier c
Occurrences(field, c) ==
    LET ids == parse_delimited_content(field)
    IN  Cardinality({i \in 1..Len(ids) : Trimmed(ids[i]) = c})

ListOf(map, c) == IF c \in DOMAIN map THEN map[c] ELSE <<>>

Repeated(e, n) == [i \in 1..n |-> e]

\* every key is a non-empty trimmed identifier with a non-empty list
KeysWellFormed(map) ==
    \A c \in DOMAIN map : c # <<>> /\ Trimmed(c) = c /\ map[c] # <<>>

\* the identifiers a row step can concern
IdsConcerned(map, after, r) ==
    DOMAIN map \cup DOMAIN after \cup IdsListed(ChosenField(r))

\* C18 as stated: each row step appends the row's entry once to the list of
\* every identifier its chosen field lists (none if the row is skipped), so
\* each list is the entries of the rows listing it, in row order; keys are
\* non-empty trimmed identifiers with non-empty lists.
C18_OneEntryPerListingRow ==
    [][index' = index + 1 =>
        /\ \A c \in IdsConcerned(evidence_map, evidence_map', row') :
              ListOf(evidence_map', c) =
                  ListOf(evidence_map, c)
                  \o Repeated(ExpectedEntry(row'),
                              IF ~Skipped(row')
                                 /\ c \in IdsListed(ChosenField(row'))
                              THEN 1 ELSE 0)
        /\ KeysWellFormed(evidence_map')]_vars

\* C18 as amended: the entry is appended once for every occurrence of the
\* identifier in the chosen field.
C18_OneEntryPerListedOccurrence ==
    [][index' = index + 1 =>
        /\ \A c \in IdsConcerned(evidence_map, evidence_map', row') :
              ListOf(evidence_map', c) =
                  ListOf(evidence_map, c)
                  \o Repeated(ExpectedEntry(row'),
                              IF Skipped(row') THEN 0
                              ELSE Occurrences(ChosenField(row'), c))
        /\ KeysWellFormed(evidence_map')]_vars

u_d == <<"[", "u", "]", " ", "-", " ", "d">>

C18_Witness ==
    /\ pc = "loaded"
    /\ index = 2
    /\ DOMAIN evidence_map = {c311, c312}
    /\ evidence_map[c311] = <<u_d>>
    /\ evidence_map[c312] = <<u_d, <<"f">> >>
    /\ \E t \in returned :
          /\ t[1] = c312
          /\ t[2] = <<"d", ".", ";", "x", "|", "d">>
          /\ t[3] = << <<"d">>, <<"x">>, u_d, <<"f">> >>

----------------------------------------------------------------------------
(* validate_csv_data *)

\* str(cell): the text of a cell, "nan" for a missing one
str(cell) == IF isna(cell) THEN <<"n", "a", "n">> ELSE cell

\* a numeric cell is written by its numeral
ValidScores == {<<"1">>, <<"3">>, <<"5">>}
NonPoamableScores == {<<"3">>, <<"5">>}
PoamMarks == {<<"P", "O", "A", "&", "M">>, <<"P", "O", "A", "M">>}

\* the messages, by their parts
MissingIdError(i) == <<"Row", i, "Missing CMMC_ID">>
MissingControlWarning(id) == <<"Control", id, "Missing Control description">>
InvalidScoreError(id, score) == <<"Control", id, "Invalid Score value", score>>
CriticalError(id, score, status) == <<"Control", id, "CRITICAL", score, status>>

\* row[col] raises KeyError
KeyError(r, col) == col \notin DOMAIN r

\* lines 245-262: the loop body for row r at index i; raised says that a
\* KeyError left the loop, after the appends made before it
ValidateRow(r, i, errors, warnings) ==
    LET halted(e, w) == [errors |-> e, warnings |-> w, raised |-> TRUE]
        done(e, w) == [errors |-> e, warnings |-> w, raised |-> FALSE]
    IN
    IF isna(r["CMMC_ID"]) \/ strip(str(r["CMMC_ID"])) = <<>>
    THEN done(Append(errors, MissingIdError(i)), warnings)
    ELSE
    LET cmmc_id == str(r["CMMC_ID"]) IN
    IF KeyError(r, "Control") THEN halted(errors, warnings)
    ELSE
    LET w1 == IF isna(r["Control"]) \/ r["Control"] = <<>>
              THEN Append(warnings, MissingControlWarning(cmmc_id))
              ELSE warnings
    IN
    IF KeyError(r, "Score") THEN halted(errors, w1)
    ELSE
    LET e1 == IF r["Score"] \notin ValidScores
              THEN Append(errors, InvalidScoreError(cmmc_id, r["Score"]))
              ELSE errors
    IN
    IF r["Score"] \in NonPoamableScores /\ KeyError(r, "AR_CAP_POAM")
    THEN halted(e1, w1)
    ELSE IF /\ r["Score"] \in NonPoamableScores
            /\ upper(str(r["AR_CAP_POAM"])) \in PoamMarks
    THEN done(Append(e1, CriticalError(cmmc_id, r["Score"], r["AR_CAP_POAM"])),
              w1)
    ELSE done(e1, w1)

PrimaryColumns ==
    {"CMMC_ID", "Control", "Score", "AR_CAP_POAM", "Evidence_Strings"}

\* the column sets of the input files considered
PrimaryColumnSets ==
    {PrimaryColumns,
     PrimaryColumns \ {"Control"},
     PrimaryColumns \ {"Score"},
     PrimaryColumns \ {"AR_CAP_POAM"},
     PrimaryColumns \ {"Evidence_Strings"}}

POAandM == <<"P", "O", "A", "&", "M">>
poam == <<"p", "o", "a", "m">>

FullPrimaryRows ==
    [CMMC_ID : {c311}, Control : {NaN, <<"d">>},
     Score : {<<"1">>, <<"3">>, <<"5">>, <<"7">>, NaN},
     AR_CAP_POAM : {NaN, POAandM, poam}, Evidence_Strings : {NaN}]
    \cup
    [CMMC_ID : {NaN, <<" ">>}, Control : {<<"d">>}, Score : {<<"7">>},
     AR_CAP_POAM : {POAandM}, Evidence_Strings : {NaN}]

PrimaryRows(cols) == {RowOver(cols, full) : full \in FullPrimaryRows}

----------------------------------------------------------------------------
(* SpecValidate: validate_csv_data over the rows of any input file *)

InitValidate ==
    /\ Constructed
    /\ pc = "validate"
    /\ evidence_map = <<>>
    /\ columns \in PrimaryColumnSets
    /\ index = 0
    /\ row = <<>>
    /\ lookups = 0
    /\ returned = {}
    /\ content = <<>>
    /\ items = <<>>
    /\ entry = <<>>

\* lines 243-262: the next row of df
ValidateNextRow ==
    /\ pc = "validate"
    /\ index < MaxRows
    /\ \E r \in PrimaryRows(columns) :
          LET out == ValidateRow(r, index, validation_errors,
                                 validation_warnings)
          IN  /\ row' = r
              /\ validation_errors' = out.errors
              /\ validation_warnings' = out.warnings
              /\ pc' = IF out.raised THEN "raised" ELSE "validate"
    /\ index' = index + 1
    /\ UNCHANGED <<evidence_map, columns, lookups, returned, content, items,
                   entry, config, files, filter_controls, df, reached,
                   run_returns>>

\* line 264: the rows are exhausted
ValidateDone ==
    /\ pc = "validate"
    /\ pc' = "validated"
    /\ UNCHANGED <<evidence_map, columns, index, row, lookups, returned,
                   content, items, entry>>
    /\ UNCHANGED runVars

NextValidate == ValidateNextRow \/ ValidateDone

SpecValidate == InitValidate /\ [][NextValidate]_vars

----------------------------------------------------------------------------
(* Properties of validate_csv_data (SpecValidate) *)

\* the row has a CMMC_ID that is not blank
HasId(r) == ~isna(r["CMMC_ID"]) /\ Trimmed(r["CMMC_ID"]) # <<>>

\* the row's Score is one of 1, 3, 5
ScoreValid(r) == Present(r, "Score") /\ r["Score"] \in ValidScores

\* the row's Score is 3 or 5 and its status is POA&M or POAM in any case
PoamViolation(r) ==
    /\ Present(r, "Score") /\ r["Score"] \in NonPoamableScores
    /\ Present(r, "AR_CAP_POAM") /\ upper(r["AR_CAP_POAM"]) \in PoamMarks

\* the entries appended to list by the step
Added(list, after) == SubSeq(after, Len(list) + 1, Len(after))

IsPrefix(list, after) ==
    Len(list) <= Len(after) /\ SubSeq(after, 1, Len(list)) = list

\* C13: a row with a non-empty CMMC_ID gets an error naming its control when
\* its Score is not 1, 3 or 5, and one when its Score is 3 or 5 and its
\* AR_CAP_POAM is POA&M or POAM in any case, and no other error: Score 3 with
\* POA&M gives exactly one error, Score 1 with POA&M none.
C13_ScoreAndPoamRules ==
    [][index' = index + 1 /\ HasId(row') =>
        LET added == Added(validation_errors, validation_errors')
            id == row'["CMMC_ID"]
        IN  /\ IsPrefix(validation_errors, validation_errors')
            /\ \A i \in 1..Len(added) : added[i][1] = "Control" /\ added[i][2] = id
            /\ ~ScoreValid(row') <=>
                  \E i \in 1..Len(added) : added[i][3] = "Invalid Score value"
            /\ PoamViolation(row') <=>
                  \E i \in 1..Len(added) : added[i][3] = "CRITICAL"
            /\ Len(added) = (IF ScoreValid(row') THEN 0 ELSE 1)
                            + (IF PoamViolation(row') THEN 1 ELSE 0)]_vars

\* C14: validation never halts: every row step goes on to the next row, a row
\* with a missing or blank CMMC_ID records exactly one error and no warning,
\* and both lists only grow at their ends.
C14_ValidationNeverHalts ==
    [][index' = index + 1 =>
        /\ pc' = "validate"
        /\ IsPrefix(validation_errors, validation_errors')
        /\ IsPrefix(validation_warnings, validation_warnings')
        /\ ~HasId(row') =>
              /\ validation_errors' =
                    Append(validation_errors, MissingIdError(index))
              /\ validation_warnings' = validation_warnings]_vars

----------------------------------------------------------------------------
(* run *)

\* lines 101-135: the loop over the rows of the evidence file
LoadFirstRow(map, rows) ==
    IF rows = <<>> THEN map ELSE ProcessRow(map, Head(rows))

RECURSIVE LoadRows(_, _)
LoadRows(map, rows) ==
    IF rows = <<>> THEN map
    ELSE LoadRows(ProcessRow(map, Head(rows)), Tail(rows))

\* lines 80-141: load_evidence_enrichment on the file at the configured path
LoadEvidenceRequiresFile(map, file) ==
    IF file.exists /\ file.readable
    THEN [evidence_map |-> LoadRows(map, file.rows), raised |-> FALSE]
    ELSE [evidence_map |-> map, raised |-> TRUE]

load_evidence_enrichment(map, file) ==
    IF ~file.exists THEN [evidence_map |-> map, raised |-> FALSE]
    ELSE IF ~file.readable THEN [evidence_map |-> map, raised |-> TRUE]
    ELSE [evidence_map |-> LoadRows(map, file.rows), raised |-> FALSE]

\* drop_duplicates(subset=['CMMC_ID']): the first row of every CMMC_ID
RECURSIVE DropDuplicates(_, _)
DropDuplicates(rows, seen) ==
    IF rows = <<>> THEN <<>>
    ELSE IF Head(rows)["CMMC_ID"] \in seen
    THEN DropDuplicates(Tail(rows), seen)
    ELSE <<Head(rows)>>
         \o DropDuplicates(Tail(rows), seen \cup {Head(rows)["CMMC_ID"]})

\* lines 673-676, 716-720: filter_dataframe with a list of controls
filter_dataframe(rows, controls) ==
    LET Listed(r) == str(r["CMMC_ID"]) \in controls
    IN  DropDuplicates(SelectSeq(rows, Listed), {})

\* lines 239-264: validate_csv_data from row i of rows on
RECURSIVE ValidateFrom(_, _, _, _)
ValidateFrom(rows, i, errors, warnings) ==
    IF i > Len(rows)
    THEN [errors |-> errors, warnings |-> warnings, raised |-> FALSE]
    ELSE LET out == ValidateRow(rows[i], i - 1, errors, warnings)
         IN  IF out.raised THEN out
             ELSE ValidateFrom(rows, i + 1, out.errors, out.warnings)

validate_csv_data(rows, errors, warnings) ==
    ValidateFrom(rows, 1, errors, warnings)

\* lines 524, 581: the rows the renderers group into families
Rendered(rows) == {i \in 1..Len(rows) : ~isna(rows[i]["CMMC_ID"])}

\* lines 269-272, 416-425: a rendered row without Control or AR_CAP_POAM;
\* lines 569, 617: the family's file cannot be written
RenderRaises(rows, writable) ==
    /\ Rendered(rows) # {}
    /\ \/ \E i \in Rendered(rows) :
             KeyError(rows[i], "Control") \/ KeyError(rows[i], "AR_CAP_POAM")
       \/ ~writable

\* lines 394, 509: the lookups of the rendered rows; none is made if the
\* first rendered row raises
RenderLookups(map, rows) ==
    IF \E i \in Rendered(rows) :
          KeyError(rows[i], "Control") \/ KeyError(rows[i], "AR_CAP_POAM")
    THEN {}
    ELSE {<<str(rows[i]["CMMC_ID"]), get(rows[i], "Evidence_Strings", <<>>),
            get_enriched_evidence_strings(
                map, str(rows[i]["CMMC_ID"]),
                get(rows[i], "Evidence_Strings", <<>>))>> :
             i \in Rendered(rows)}

\* evidence_map after the lookups of the rendered rows
RECURSIVE EvidenceMapAfterRender(_, _)
EvidenceMapAfterRender(map, rows) ==
    IF rows = <<>> THEN map
    ELSE IF isna(Head(rows)["CMMC_ID"])
    THEN EvidenceMapAfterRender(map, Tail(rows))
    ELSE EvidenceMapAfterRender(
             EvidenceMapAfterLookup(map, str(Head(rows)["CMMC_ID"]),
                                    get(Head(rows), "Evidence_Strings", <<>>)),
             Tail(rows))

\* line 791: the value run returns from its except clause
ExceptStatus == 1

\* lines 781-786: the value run returns after the report
ExitStatusIgnoresErrors(errors) == 0

ExitStatus(errors) == IF errors # <<>> THEN 1 ELSE 0

e_suggested ==
    [File_Name |-> <<"f">>, Current_Sharepoint_Link |-> <<"u">>,
     Description |-> <<"d">>,
     Suggested_CMMC_Mappings |-> c311 \o <<"|">> \o c312,
     Provided_CMMC_Mappings |-> NaN]

e_provided ==
    [File_Name |-> <<"f">>, Current_Sharepoint_Link |-> NaN,
     Description |-> NaN, Suggested_CMMC_Mappings |-> NaN,
     Provided_CMMC_Mappings |-> c312]

\* the evidence files run is given
RunEvidenceFiles ==
    {MissingFile, UnreadableFile, CsvFile(<<>>), CsvFile(<<e_suggested>>),
     CsvFile(<<e_suggested, e_provided>>)}

r_critical ==
    [CMMC_ID |-> c312, Control |-> <<"d">>, Score |-> <<"3">>,
     AR_CAP_POAM |-> POAandM,
     Evidence_Strings |-> <<"d", ".", ";", "x", "|", "d">>]

r_warning ==
    [CMMC_ID |-> c311, Control |-> NaN, Score |-> <<"1">>,
     AR_CAP_POAM |-> POAandM, Evidence_Strings |-> NaN]

r_no_id ==
    [CMMC_ID |-> NaN, Control |-> <<"d">>, Score |-> <<"5">>,
     AR_CAP_POAM |-> NaN, Evidence_Strings |-> NaN]

r_clean ==
    [CMMC_ID |-> c313, Control |-> <<"d">>, Score |-> <<"5">>,
     AR_CAP_POAM |-> NaN, Evidence_Strings |-> <<"x">>]

RunDataFrames ==
    {<<r_clean>>, <<r_warning, r_clean>>, <<r_critical, r_warning>>,
     <<r_no_id, r_clean>>}

\* the input files run is given
RunInputFiles ==
    {MissingFile, UnreadableFile, CsvFile(<<>>)}
    \cup {CsvFile([i \in 1..Len(rows) |-> RowOver(cols, rows[i])]) :
             rows \in RunDataFrames, cols \in PrimaryColumnSets}

\* the filter_controls arguments: none, or a list of controls
RunFilters == {{}, {c312}, {c311, c313}}

----------------------------------------------------------------------------
(* SpecRun: one call of run *)

InitRun ==
    /\ pc = "run"
    /\ evidence_map = <<>>
    /\ columns = {}
    /\ index = 0
    /\ row = <<>>
    /\ lookups = 0
    /\ returned = {}
    /\ content = <<>>
    /\ items = <<>>
    /\ entry = <<>>
    /\ validation_errors = <<>>
    /\ validation_warnings = <<>>
    /\ config \in [evidence_csv : BOOLEAN, validate_poam_rules : BOOLEAN,
                   generate_html : BOOLEAN, generate_docx : BOOLEAN]
    /\ files \in [evidence_csv : RunEvidenceFiles, input_csv : RunInputFiles,
                  output_writable : BOOLEAN]
    /\ filter_controls \in RunFilters
    /\ df = <<>>
    /\ reached = {}
    /\ run_returns = <<>>

StepEndsPropagating(step, raised, next) ==
    /\ reached' = reached \cup {step}
    /\ pc' = IF raised THEN "propagated" ELSE next
    /\ run_returns' = run_returns

\* the step named step is over: on to next, or into the except clause of
\* lines 788-791 if it raised
StepEnds(step, raised, next) ==
    /\ reached' = reached \cup {step} \cup (IF raised THEN {"except"} ELSE {})
    /\ pc' = IF raised THEN "returned" ELSE next
    /\ run_returns' = IF raised THEN <<ExceptStatus>> ELSE run_returns

notReadByRun == <<columns, index, row, content, items, entry>>

\* lines 728-729
RunLoadEvidence ==
    /\ pc = "run"
    /\ IF config.evidence_csv
       THEN LET out == load_evidence_enrichment(evidence_map,
                                                files.evidence_csv)
            IN  /\ evidence_map' = out.evidence_map
                /\ StepEnds("load_evidence", out.raised, "load_input")
       ELSE /\ pc' = "load_input"
            /\ UNCHANGED <<evidence_map, reached, run_returns>>
    /\ UNCHANGED <<lookups, returned, validation_errors, validation_warnings,
                   config, files, filter_controls, df>>
    /\ UNCHANGED notReadByRun

\* lines 732-747
RunLoadInput ==
    /\ pc = "load_input"
    /\ LET raised == ~files.input_csv.exists \/ ~files.input_csv.readable
       IN  /\ df' = IF raised THEN df ELSE files.input_csv.rows
           /\ StepEnds("load_input", raised, "filter")
    /\ UNCHANGED <<evidence_map, lookups, returned, validation_errors,
                   validation_warnings, config, files, filter_controls>>
    /\ UNCHANGED notReadByRun

\* lines 750-755
RunFilter ==
    /\ pc = "filter"
    /\ IF filter_controls # {}
       THEN /\ df' = filter_dataframe(df, filter_controls)
            /\ reached' = reached \cup {"filter"}
            /\ IF df' = <<>>
               THEN pc' = "returned" /\ run_returns' = <<0>>
               ELSE pc' = "validate" /\ run_returns' = run_returns
       ELSE /\ pc' = "validate"
            /\ UNCHANGED <<df, reached, run_returns>>
    /\ UNCHANGED <<evidence_map, lookups, returned, validation_errors,
                   validation_warnings, config, files, filter_controls>>
    /\ UNCHANGED notReadByRun

\* lines 758-759
RunValidate ==
    /\ pc = "validate"
    /\ IF config.validate_poam_rules
       THEN LET out == validate_csv_data(df, validation_errors,
                                         validation_warnings)
            IN  /\ validation_errors' = out.errors
                /\ validation_warnings' = out.warnings
                /\ StepEnds("validate", out.raised, "html")
       ELSE /\ pc' = "html"
            /\ UNCHANGED <<validation_errors, validation_warnings, reached,
                           run_returns>>
    /\ UNCHANGED <<evidence_map, lookups, returned, config, files,
                   filter_controls, df>>
    /\ UNCHANGED notReadByRun

\* generate_html_files (517-572) or generate_docx_files (574-620) over df
Generate(step, next) ==
    /\ evidence_map' = EvidenceMapAfterRender(evidence_map, df)
    /\ returned' = returned
                   \cup RenderLookups(evidence_map, df)
    /\ lookups' = lookups + Cardinality(
                      RenderLookups(evidence_map, df))
    /\ StepEnds(step, RenderRaises(df, files.output_writable), next)

\* lines 762-763
RunGenerateHtml ==
    /\ pc = "html"
    /\ IF config.generate_html
       THEN Generate("html", "docx")
       ELSE /\ pc' = "docx"
            /\ UNCHANGED <<evidence_map, lookups, returned, reached,
                           run_returns>>
    /\ UNCHANGED <<validation_errors, validation_warnings, config, files,
                   filter_controls, df>>
    /\ UNCHANGED notReadByRun

\* lines 765-766
RunGenerateDocx ==
    /\ pc = "docx"
    /\ IF config.generate_docx
       THEN Generate("docx", "report")
       ELSE /\ pc' = "report"
            /\ UNCHANGED <<evidence_map, lookups, returned, reached,
                           run_returns>>
    /\ UNCHANGED <<validation_errors, validation_warnings, config, files,
                   filter_controls, df>>
    /\ UNCHANGED notReadByRun

\* line 769: generate_validation_report writes the report file
RunReport ==
    /\ pc = "report"
    /\ StepEnds("report", ~files.output_writable, "status")
    /\ UNCHANGED <<evidence_map, lookups, returned, validation_errors,
                   validation_warnings, config, files, filter_controls, df>>
    /\ UNCHANGED notReadByRun

\* lines 771-786
RunReturn ==
    /\ pc = "status"
    /\ pc' = "returned"
    /\ run_returns' = <<ExitStatus(validation_errors)>>
    /\ UNCHANGED <<evidence_map, lookups, returned, validation_errors,
                   validation_warnings, config, files, filter_controls, df,
                   reached>>
    /\ UNCHANGED notReadByRun

NextRun ==
    \/ RunLoadEvidence
    \/ RunLoadInput
    \/ RunFilter
    \/ RunValidate
    \/ RunGenerateHtml
    \/ RunGenerateDocx
    \/ RunReport
    \/ RunReturn

SpecRun == InitRun /\ [][NextRun]_vars

----------------------------------------------------------------------------
(* Properties of run (SpecRun) *)

\* the evidence file is configured and absent
EvidenceMissing == config.evidence_csv /\ ~files.evidence_csv.exists

\* C15: with the evidence file missing, the load step leaves evidence_map
\* empty, as a file of zero rows does, and run goes on to load the input
\* without returning; every lookup then returns the inline items only.
C15_MissingEvidenceFileIsNotFatal ==
    [][EvidenceMissing =>
        /\ pc = "run" =>
              /\ pc' = "load_input"
              /\ run_returns' = <<>>
              /\ "except" \notin reached'
        /\ evidence_map' = <<>>
        /\ \A t \in returned' :
              /\ Range(t[3]) = Range(parse_delimited_content(t[2]))
              /\ ~HasRepetition(t[3])]_vars

C15_Witness ==
    /\ EvidenceMissing
    /\ pc = "returned"
    /\ run_returns = <<0>>
    /\ {"load_evidence", "validate", "html", "docx", "report"} \subseteq reached
    /\ \E t \in returned : t[1] = c313 /\ t[3] = << <<"x">> >>

\* reading the input file raises
InputLoadRaises == ~files.input_csv.exists \/ ~files.input_csv.readable

\* C16: once loading the input has raised, run has returned 1 and has
\* reached none of filtering, validation, HTML, DOCX and report.
C16_InputLoadFailureAbortsRun ==
    "load_input" \in reached /\ InputLoadRaises =>
        /\ pc = "returned"
        /\ run_returns = <<1>>
        /\ reached \cap {"filter", "validate", "html", "docx", "report"} = {}
        /\ lookups = 0
        /\ validation_errors = <<>> /\ validation_warnings = <<>>

C16_Witness ==
    /\ "load_input" \in reached
    /\ InputLoadRaises
    /\ files.input_csv.exists
    /\ pc = "returned"
    /\ DOMAIN evidence_map = {c311, c312}

\* the rows of the evidence file load_evidence_enrichment is to iterate
EvidenceRowsGiven ==
    IF /\ config.evidence_csv
       /\ files.evidence_csv.exists
       /\ files.evidence_csv.readable
    THEN files.evidence_csv.rows
    ELSE <<>>

\* the list the rows give identifier c
RECURSIVE IndexOf(_, _)
IndexOf(rows, c) ==
    IF rows = <<>> THEN <<>>
    ELSE Repeated(ExpectedEntry(Head(rows)),
                  IF Skipped(Head(rows)) THEN 0
                  ELSE Occurrences(ChosenField(Head(rows)), c))
         \o IndexOf(Tail(rows), c)

RunIds == {c311, c312, c313}

\* map holds the entries of all the rows of the evidence file
FullyBuilt(map) ==
    \A c \in DOMAIN map \cup RunIds :
        ListOf(map, c) = IndexOf(EvidenceRowsGiven, c)

\* C17: whenever a lookup is made, load_evidence_enrichment has been through
\* all the rows of the evidence file; and no step after the load step changes
\* evidence_map.
C17_BuildBeforeRead ==
    [][/\ lookups' > lookups =>
              /\ config.evidence_csv => "load_evidence" \in reached
              /\ FullyBuilt(evidence_map)
       /\ pc # "run" => evidence_map' = evidence_map]_vars

C17_Witness ==
    /\ pc = "returned"
    /\ lookups = 4
    /\ config.evidence_csv
    /\ Len(files.evidence_csv.rows) = 2
    /\ DOMAIN evidence_map = {c311, c312}
    /\ Len(evidence_map[c312]) = 2
    /\ \E t \in returned : t[1] = c312 /\ Len(t[3]) = 4

\* an exception was caught by run's except clause
Caught == "except" \in reached

\* a filter was given and no row of the input matches it
NothingMatched ==
    /\ filter_controls # {}
    /\ "filter" \in reached
    /\ \A i \in 1..Len(files.input_csv.rows) :
          files.input_csv.rows[i]["CMMC_ID"] \notin filter_controls

\* the report and the configured outputs were generated
Generated ==
    /\ "report" \in reached
    /\ config.generate_html => "html" \in reached
    /\ config.generate_docx => "docx" \in reached

\* C19: run returns 1 exactly when an exception was caught or the outputs
\* and the report were generated and validation_errors is non-empty, else 0;
\* without an exception the outputs are generated whatever validation found,
\* unless a filter matched nothing: then run returns 0 and has validated and
\* generated nothing.
C19_ExitStatus ==
    pc = "returned" =>
        /\ run_returns \in {<<0>>, <<1>>}
        /\ run_returns = <<1>> <=>
              Caught \/ (Generated /\ validation_errors # <<>>)
        /\ ~Caught /\ ~NothingMatched => Generated
        /\ ~Caught /\ validation_errors = <<>> => run_returns = <<0>>
        /\ NothingMatched =>
              /\ run_returns = <<0>>
              /\ reached \cap {"validate", "html", "docx", "report"} = {}
              /\ lookups = 0

C19_Witness ==
    /\ pc = "returned"
    /\ run_returns = <<1>>
    /\ ~Caught
    /\ Len(validation_errors) = 1
    /\ Len(validation_warnings) = 1
    /\ {"validate", "html", "docx", "report"} \subseteq reached
    /\ lookups = 4

C19_FilterWitness ==
    /\ pc = "returned"
    /\ NothingMatched
    /\ Len(files.input_csv.rows) = 2
    /\ run_returns = <<0>>

====
